---- MODULE Spec2Model ----
(***************************************************************************)
(* Model of the market-graph window of simcompanies-economy-data:          *)
(*   src/src/models.py  MarketGraphWindow._get_graph_max_depth,            *)
(*                      MarketGraphWindow._get_item_positions (wrapper)    *)
(*   src/src/utils.py   get_mapped_red_to_green_color                      *)
(*                                                                         *)
(* A graph layer is a record [kind, items]: kind "dict" for a Python dict  *)
(* (a Sublayer, or the top-level graph), "list" for a Python list (a       *)
(* TerminalList). items is the layer in iteration order; each entry is a   *)
(* record [id, val] where val is the value stored under the key (another   *)
(* layer), or the Leaf marker for a list element, which has no value.      *)
(***************************************************************************)
EXTENDS Integers, Sequences, FiniteSets, TLC

\* ------------------------------------------------------------------ bounds
\* largest number of resource IDs in a graph
MaxNodes == 6
\* largest canvas width / height tried (the smallest is -1)
MaxDim == 4
\* largest small number tried as value, min_value, max_value (smallest: -1)
MaxColor == 4
\* the value and max_value of the docstring examples of the colour gradient
DocMid == 50
DocMax == 100
\* largest number of resource IDs in a rendered graph
MaxRenderNodes == 3
\* largest saved profit per hour per labour tried (the smallest is -1)
MaxProfit == 1
\* most wheel events delivered to one window
MaxWheelEvents == 4
\* distance of the initial window sizes tried from MIN_WINDOW_SIZE and max_size
MaxZoomOffset == 25

\* ------------------------------------------------------------ graph inputs
Leaf == [kind |-> "leaf", items |-> <<>>]

RECURSIVE Dicts(_, _)
\* the dict layers with exactly n IDs, numbered s, s+1, ... in iteration order
Dicts(n, s) ==
    IF n = 0 THEN {<<>>}
    ELSE UNION { UNION { { <<[id |-> s, val |-> v]>> \o rest :
                              rest \in Dicts(n - 1 - k, s + 1 + k) } :
                         v \in { [kind |-> "list",
                                  items |-> [j \in 1..k |-> [id |-> s + j, val |-> Leaf]]] }
                               \cup { [kind |-> "dict", items |-> d] : d \in Dicts(k, s + 1) } } :
                 k \in 0..(n - 1) }

\* every graph a window can be constructed with, up to MaxNodes IDs; the
\* empty graph and graphs with empty Sublayers / TerminalLists are included
Graphs == UNION { { [kind |-> "dict", items |-> d] : d \in Dicts(n, 1) } : n \in 0..MaxNodes }

Dims == (-1)..MaxDim
Sizes == [width : Dims, height : Dims]

ColorInputs == ((-1)..MaxColor) \cup {DocMid, DocMax}

\* the graphs rendered: every graph of up to MaxRenderNodes IDs
RenderGraphs ==
    UNION { { [kind |-> "dict", items |-> d] : d \in Dicts(n, 1) } : n \in 0..MaxRenderNodes }

\* a resource that is saved on disk but is in no rendered graph
OtherId == MaxRenderNodes + 1

\* the contents of saved_data/pphpls.json: a profit for some of the IDs of
\* the graphs, and one for OtherId
SavedPPHPLs ==
    UNION { [S \cup {OtherId} -> (-1)..MaxProfit] : S \in SUBSET (1..MaxRenderNodes) }

\* the contents of saved_data/product_id_to_name.json: a name (here the
\* number of the product) for every ID, or for every ID but one
ProductNames ==
    { [k \in (1..OtherId) \ missing |-> k] :
        missing \in {{}} \cup { {k} : k \in 1..MaxRenderNodes } }

\* ------------------------------------------------------- Python arithmetic
\* round(a / b) for integers a and b > 0: Python 3 rounds a float to the
\* nearest integer and a tie (x.5) to the even neighbour
Round(a, b) ==
    LET q == a \div b
        r == a % b
    IN  IF 2 * r < b THEN q
        ELSE IF 2 * r > b THEN q + 1
        ELSE IF q % 2 = 0 THEN q ELSE q + 1

Max(a, b) == IF a >= b THEN a ELSE b

\* ------------------------------------------------------------ max depth
RECURSIVE max_depth_wrapper(_, _)
\* wrapper(graph, depth) of _get_graph_max_depth: the loop runs over the
\* items in order and REBINDS depth after every dict-valued item, so the
\* depth a sibling starts from is the one its elder sibling returned
max_depth_wrapper(g, depth) ==
    LET n == Len(g.items)
        loop[i \in 0..n] ==
            IF i = 0 THEN depth
            ELSE IF g.items[i].val.kind = "dict"
                 THEN max_depth_wrapper(g.items[i].val, loop[i - 1] + 1)
                 ELSE loop[i - 1]
    IN  loop[n] + 1

_get_graph_max_depth(g) == max_depth_wrapper(g, 0)

\* ------------------------------------------------------------ layout
NoPositions == [err |-> "none", pos |-> <<>>]

ZeroDivisionError == [err |-> "ZeroDivisionError", pos |-> <<>>]

\* dict.update / item assignment: entries of b replace those of a
Update(a, b) ==
    [k \in (DOMAIN a) \cup (DOMAIN b) |-> IF k \in DOMAIN b THEN b[k] ELSE a[k]]

\* a layout that special-cases an empty layer as "nothing to place"
EmptyLayerSkipped(g) == NoPositions

\* the value of `len(graph) == 0` layers: size.height() / len(graph) raises
EmptyLayer(g) == ZeroDivisionError

\* y_step = round(size.height() / len(graph))
YStep(height, n) == Round(height, n)

\* y_shift = round(size.height() / 2 / len(graph))
YShift(height, n) == Round(height, 2 * n)

\* columns counted from 1 instead of 0
ItemXFromOne(x_step, depth) == x_step * (depth + 1)

\* x = x_step * depth
ItemX(x_step, depth) == x_step * depth

\* the sibling index left out of the vertical position
ItemYNoIndex(y_step, i, y_shift, y_align) == y_shift + y_align

\* y = y_step * i + y_shift + y_align   (i is 0-based)
ItemY(y_step, i, y_shift, y_align) == y_step * i + y_shift + y_align

\* the offset of the layer added to the one handed down
NextAlignAccumulated(y_step, i, y_align) == y_align + y_step * i

\* y_align passed down to the layer stored under sibling i (0-based)
NextAlign(y_step, i, y_align) == y_step * i

\* the type test made on the value under the key, as _get_graph_max_depth does
RecursesOnDictValue(g, item) == item.val.kind = "dict"

\* whether the loop body recurses: isinstance(graph, dict) of the CURRENT layer
Recurses(g, item) == g.kind = "dict"

RECURSIVE wrapper(_, _, _, _, _)
\* wrapper(graph, size, depth, x_step, y_align) of _get_item_positions
wrapper(g, sz, depth, x_step, y_align) ==
    LET n == Len(g.items)
    IN  IF n = 0 THEN EmptyLayer(g)
        ELSE
        LET y_step  == YStep(sz.height, n)
            y_shift == YShift(sz.height, n)
            x       == ItemX(x_step, depth)
            next_size == [width |-> sz.width, height |-> Round(sz.height, n)]
            loop[i \in 0..n] ==
                IF i = 0 THEN NoPositions
                ELSE
                LET prev == loop[i - 1]
                    item == g.items[i]
                    y    == ItemY(y_step, i - 1, y_shift, y_align)
                    own  == Update(prev.pos, (item.id :> <<x, y>>))
                IN  IF prev.err # "none" THEN prev
                    ELSE IF ~Recurses(g, item) THEN [err |-> "none", pos |-> own]
                    ELSE
                    LET sub == wrapper(item.val, next_size, depth + 1, x_step,
                                       NextAlign(y_step, i - 1, y_align))
                    IN  IF sub.err # "none" THEN [err |-> sub.err, pos |-> <<>>]
                        ELSE [err |-> "none", pos |-> Update(own, sub.pos)]
        IN  loop[n]

\* x_step = round(size.width() / self._get_graph_max_depth(graph))
XStep(g, sz) == Round(sz.width, _get_graph_max_depth(g))

_get_item_positions(g, sz) == wrapper(g, sz, 0, XStep(g, sz), 0)

\* ------------------------------------------------------------ colour
NoColor == [err |-> "none", rgb |-> <<>>]

\* if max_value < min_value: raise ValueError
BadBounds(min_value, max_value) == max_value < min_value

\* a range check that only looks below the range
OutOfRangeBelowOnly(value, min_value, max_value) == value < min_value

\* if value < min_value or value > max_value: raise ValueError
OutOfRange(value, min_value, max_value) == value < min_value \/ value > max_value

\* step = 255 * 2 / (max_value - min_value); pos = round(value * step):
\* the position is taken from value itself, not from value - min_value
GradientPos(value, min_value, max_value) == Round(value * 255 * 2, max_value - min_value)

get_mapped_red_to_green_color(value, min_value, max_value) ==
    IF BadBounds(min_value, max_value) THEN [err |-> "ValueError", rgb |-> <<>>]
    ELSE IF OutOfRange(value, min_value, max_value) THEN [err |-> "ValueError", rgb |-> <<>>]
    ELSE IF max_value - min_value = 0 THEN [err |-> "ZeroDivisionError", rgb |-> <<>>]
    ELSE LET pos   == GradientPos(value, min_value, max_value)
             green == Max(0, pos - 255)
             red   == Max(0, 255 - pos)
         IN  [err |-> "none", rgb |-> <<red, green, 0>>]

\* ------------------------------------------------------------ PPHPL data
RECURSIVE unnest_graph(_)
\* utils.unnest_graph: every key and every list element of the graph, in order
unnest_graph(g) ==
    LET n == Len(g.items)
        loop[i \in 0..n] ==
            IF i = 0 THEN <<>>
            ELSE loop[i - 1] \o <<g.items[i].id>> \o
                 (IF g.kind = "dict" THEN unnest_graph(g.items[i].val) ELSE <<>>)
    IN  loop[n]

\* utils.select_included(pphpls.items(), resource_ids, lambda x: x[0]) made a
\* dict again: the entries whose key is one of resource_ids
select_included(saved, resource_ids) ==
    [k \in { x \in DOMAIN saved : \E j \in 1..Len(resource_ids) : resource_ids[j] = x }
        |-> saved[k]]

\* not_found = set(resource_ids) - set(pphpls)
NotFound(resource_ids, found) ==
    { resource_ids[j] : j \in 1..Len(resource_ids) } \ DOMAIN found

\* get_PPHPLs(realm, resource_ids, update=False) on the saved data
get_PPHPLs(saved, resource_ids) ==
    LET found == select_included(saved, resource_ids)
    IN  IF NotFound(resource_ids, found) # {}
        THEN [err |-> "KeyError", map |-> <<>>]
        ELSE [err |-> "none", map |-> found]

\* ------------------------------------------------------------ rendering
NoButtons == [err |-> "none", buttons |-> <<>>]

\* Button(name, self) before it is coloured and moved: a child of the window
\* at the origin, with the empty style sheet
BareButton(name) ==
    [text |-> name, background |-> <<>>, black_text |-> FALSE, pos |-> <<0, 0>>]

\* max(pphpls.values())
MaxOf(values) == CHOOSE m \in values : \A v \in values : v <= m

\* the lower bound render_graph gives the gradient
RenderMinValue(map) == 0

\* the loop of render_graph over positions.items(): a dict iterates in the
\* order its keys were first inserted, which for wrapper is the order of
\* unnest_graph; the button is created before its colour is computed and
\* stays a child of the window when that or a later iteration raises
RenderLoop(order, positions, names, map, max_value) ==
    LET n == Len(order)
        loop[i \in 0..n] ==
            IF i = 0 THEN NoButtons
            ELSE
            LET prev == loop[i - 1]
                id   == order[i]
                c    == get_mapped_red_to_green_color(map[id], RenderMinValue(map), max_value)
            IN  IF prev.err # "none" \/ id \in DOMAIN prev.buttons THEN prev
                ELSE IF id \notin DOMAIN names THEN [prev EXCEPT !.err = "KeyError"]
                ELSE IF c.err # "none"
                     THEN [err |-> c.err,
                           buttons |-> Update(prev.buttons, (id :> BareButton(names[id])))]
                ELSE [prev EXCEPT !.buttons =
                         Update(prev.buttons,
                                (id :> [text       |-> names[id],
                                        background |-> c.rgb,
                                        black_text |-> 2 * (c.rgb[1] + c.rgb[2]) > 255,
                                        pos        |-> positions[id]]))]
    IN  loop[n]

\* MarketGraphWindow.render_graph(update=False)
render_graph(g, sz, saved, names) ==
    LET unnested_graph == unnest_graph(g)
        positions      == _get_item_positions(g, sz)
        pphpls_        == get_PPHPLs(saved, unnested_graph)
    IN  IF positions.err # "none" THEN [err |-> positions.err, buttons |-> <<>>]
        ELSE IF pphpls_.err # "none" THEN [err |-> pphpls_.err, buttons |-> <<>>]
        ELSE IF DOMAIN pphpls_.map = {} THEN [err |-> "ValueError", buttons |-> <<>>]
        ELSE RenderLoop(unnested_graph, positions.pos, names, pphpls_.map,
                        MaxOf({ pphpls_.map[k] : k \in DOMAIN pphpls_.map }))

\* ------------------------------------------------------------ zoom
\* MIN_WINDOW_SIZE = QSize(100, 100)
MIN_WINDOW_SIZE == [width |-> 100, height |-> 100]

\* self.max_size = QSize(round(1e4), round(1e4))
max_size == [width |-> 10000, height |-> 10000]

\* ZOOM_IN_SPEED = 1 - 0.2 and ZOOM_OUT_SPEED = 1 + 0.2, as fractions
ZOOM_IN_SPEED == [num |-> 4, den |-> 5]

ZOOM_OUT_SPEED == [num |-> 6, den |-> 5]

\* qRound(a / b) for b > 0: Qt rounds a tie away from zero
qRound(a, b) ==
    IF a >= 0 THEN (2 * a + b) \div (2 * b) ELSE -((2 * (-a) + b) \div (2 * b))

\* QSize * float: each dimension multiplied and rounded to the nearest integer
Scale(sz, rate) ==
    [width  |-> qRound(sz.width * rate.num, rate.den),
     height |-> qRound(sz.height * rate.num, rate.den)]

Min(a, b) == IF a <= b THEN a ELSE b

\* QSize.boundedTo: the minimum width and height of the two sizes
boundedTo(a, b) == [width |-> Min(a.width, b.width), height |-> Min(a.height, b.height)]

\* if zoomed_size.boundedTo(max_size) != zoomed_size: return
ExceedsMax(zoomed, max) == boundedTo(zoomed, max) # zoomed

\* the lower check compared against the wrong operand
BelowMinAgainstZoomed(zoomed, min) == boundedTo(min, zoomed) # zoomed

\* if min_size.boundedTo(zoomed_size) != min_size: return
BelowMin(zoomed, min) == boundedTo(min, zoomed) # min

\* scroll_degrees_y_to_zoom_rate
scroll_degrees_y_to_zoom_rate(scroll_degrees_y, zoom_in_speed, zoom_out_speed) ==
    IF scroll_degrees_y < 0 THEN zoom_in_speed ELSE zoom_out_speed

\* round(center + (pos - center) * rate) for one coordinate
ZoomedCoordinate(center, pos, rate) ==
    Round(center * rate.den + (pos - center) * rate.num, rate.den)

\* MainWindow.zoom: the new zoomed_size and widget positions, and whether
\* the zoom was applied
zoom(zoomed_size_, widgets_, center, rate, min, max) ==
    LET zoomed == Scale(zoomed_size_, rate)
    IN  IF ExceedsMax(zoomed, max) \/ BelowMin(zoomed, min)
        THEN [zoomed_size |-> zoomed_size_, widgets |-> widgets_, applied |-> FALSE]
        ELSE [zoomed_size |-> zoomed,
              widgets |-> [k \in DOMAIN widgets_ |->
                              << ZoomedCoordinate(center[1], widgets_[k][1], rate),
                                 ZoomedCoordinate(center[2], widgets_[k][2], rate) >>],
              applied |-> TRUE]

\* the sizes a window is constructed with
ZoomDims ==
    { MIN_WINDOW_SIZE.width - MaxZoomOffset, MIN_WINDOW_SIZE.width,
      MIN_WINDOW_SIZE.width + MaxZoomOffset,
      max_size.width - MaxZoomOffset, max_size.width }

\* the graph whose buttons the zoomed window holds: {1: [2]}
ZoomGraph ==
    [kind |-> "dict",
     items |-> << [id |-> 1,
                   val |-> [kind |-> "list", items |-> << [id |-> 2, val |-> Leaf] >>]] >>]

\* event.angleDelta().y() of the wheel events tried
AngleDeltas == {-120, 0, 120}

\* ------------------------------------------------------------ state
VARIABLES
    graph,           \* MarketGraphWindow.graph
    op,              \* the call made: "init" before any call
    size,            \* the size argument of _get_item_positions
    item_positions,  \* what _get_item_positions returned or raised
    max_depth,       \* what _get_graph_max_depth returned (0: not called)
    color_args,      \* the arguments of get_mapped_red_to_green_color
    color,           \* what get_mapped_red_to_green_color returned or raised
    saved_pphpls,    \* saved_data/pphpls.json
    product_id_to_name,  \* MarketGraphWindow.product_id_to_name
    pphpls,          \* what get_PPHPLs returned or raised
    rendered,        \* the buttons of the window, and what render_graph raised
    zoomed_size,     \* MainWindow.zoomed_size
    widgets,         \* pos() of the child widgets of the window
    wheel,           \* the last wheel event and whether its zoom was applied
    wheel_events     \* how many wheel events were delivered

renderVars == <<saved_pphpls, product_id_to_name, pphpls, rendered>>

zoomVars == <<zoomed_size, widgets, wheel, wheel_events>>

vars == <<graph, op, size, item_positions, max_depth, color_args, color, renderVars,
          zoomVars>>

NoWheel == [event |-> "none", rate |-> ZOOM_IN_SPEED, center |-> <<0, 0>>, applied |-> FALSE]

\* MainWindow.__init__ of a window without widgets that got no wheel event
ZoomIdle ==
    /\ zoomed_size = size
    /\ widgets = <<>>
    /\ wheel = NoWheel
    /\ wheel_events = 0

NoPPHPLs == [err |-> "none", map |-> <<>>]

\* nothing saved, nothing rendered
RenderIdle ==
    /\ saved_pphpls = <<>>
    /\ product_id_to_name = <<>>
    /\ pphpls = NoPPHPLs
    /\ rendered = NoButtons

NoArgs == [value |-> 0, min_value |-> 0, max_value |-> 0]

Init ==
    /\ graph \in Graphs
    /\ op = "init"
    /\ size = [width |-> 0, height |-> 0]
    /\ item_positions = NoPositions
    /\ max_depth = 0
    /\ color_args = NoArgs
    /\ color = NoColor
    /\ RenderIdle
    /\ ZoomIdle

GetGraphMaxDepth ==
    /\ op = "init"
    /\ op' = "max_depth"
    /\ max_depth' = _get_graph_max_depth(graph)
    /\ UNCHANGED <<graph, size, item_positions, color_args, color, renderVars, zoomVars>>

GetItemPositions ==
    /\ op = "init"
    /\ \E sz \in Sizes :
          /\ size' = sz
          /\ item_positions' = _get_item_positions(graph, sz)
    /\ op' = "layout"
    /\ UNCHANGED <<graph, max_depth, color_args, color, renderVars, zoomVars>>

Next == GetGraphMaxDepth \/ GetItemPositions

Spec == Init /\ [][Next]_vars

\* the colour gradient on its own: a pure function of its three arguments
ColorInit ==
    /\ graph = [kind |-> "dict", items |-> <<>>]
    /\ op = "init"
    /\ size = [width |-> 0, height |-> 0]
    /\ item_positions = NoPositions
    /\ max_depth = 0
    /\ color_args \in [value : ColorInputs, min_value : ColorInputs, max_value : ColorInputs]
    /\ color = NoColor
    /\ RenderIdle
    /\ ZoomIdle

GetMappedColor ==
    /\ op = "init"
    /\ op' = "color"
    /\ color' = get_mapped_red_to_green_color(color_args.value, color_args.min_value,
                                              color_args.max_value)
    /\ UNCHANGED <<graph, size, item_positions, max_depth, color_args, renderVars, zoomVars>>

ColorNext == GetMappedColor

ColorSpec == ColorInit /\ [][ColorNext]_vars

\* rendering: a window of size MaxDim x MaxDim is constructed on a graph,
\* with the two saved files as they are on disk
RenderInit ==
    /\ graph \in RenderGraphs
    /\ op = "init"
    /\ size = [width |-> MaxDim, height |-> MaxDim]
    /\ item_positions = NoPositions
    /\ max_depth = 0
    /\ color_args = NoArgs
    /\ color = NoColor
    /\ saved_pphpls \in SavedPPHPLs
    /\ product_id_to_name \in ProductNames
    /\ pphpls = NoPPHPLs
    /\ rendered = NoButtons
    /\ ZoomIdle

GetPPHPLs ==
    /\ op = "init"
    /\ op' = "pphpls"
    /\ pphpls' = get_PPHPLs(saved_pphpls, unnest_graph(graph))
    /\ UNCHANGED <<graph, size, item_positions, max_depth, color_args, color,
                   saved_pphpls, product_id_to_name, rendered, zoomVars>>

RenderGraph ==
    /\ op = "init"
    /\ op' = "render"
    /\ rendered' = render_graph(graph, size, saved_pphpls, product_id_to_name)
    /\ UNCHANGED <<graph, size, item_positions, max_depth, color_args, color,
                   saved_pphpls, product_id_to_name, pphpls, zoomVars>>

RenderNext == GetPPHPLs \/ RenderGraph

RenderSpec == RenderInit /\ [][RenderNext]_vars

\* zooming: a window is constructed with a size, holds the buttons of
\* ZoomGraph where the layout put them, and receives wheel events
ZoomInit ==
    /\ graph = ZoomGraph
    /\ op = "init"
    /\ size \in [width : ZoomDims, height : ZoomDims]
    /\ item_positions = NoPositions
    /\ max_depth = 0
    /\ color_args = NoArgs
    /\ color = NoColor
    /\ RenderIdle
    /\ zoomed_size = size
    /\ widgets = _get_item_positions(graph, size).pos
    /\ wheel = NoWheel
    /\ wheel_events = 0

\* wheelEvent(None): if not event: return
WheelEventNone ==
    /\ wheel_events < MaxWheelEvents
    /\ wheel_events' = wheel_events + 1
    /\ wheel' = NoWheel
    /\ op' = "wheel"
    /\ UNCHANGED <<graph, size, item_positions, max_depth, color_args, color, renderVars,
                   zoomed_size, widgets>>

\* wheelEvent(event): the rate from the sign of the scroll, then zoom about
\* event.position()
WheelEvent ==
    /\ wheel_events < MaxWheelEvents
    /\ \E angle_y \in AngleDeltas, is_inverted \in BOOLEAN,
          x \in {0, size.width}, y \in {0, size.height} :
          LET inverted      == IF is_inverted THEN -1 ELSE 1
              \* num_degrees_y = angleDelta().y() * inverted / 8, times 8
              num_degrees_y == angle_y * inverted
              zoom_rate     == scroll_degrees_y_to_zoom_rate(num_degrees_y, ZOOM_IN_SPEED,
                                                             ZOOM_OUT_SPEED)
              z == zoom(zoomed_size, widgets, <<x, y>>, zoom_rate, MIN_WINDOW_SIZE, max_size)
          IN  IF zoom_rate.num # zoom_rate.den
              THEN /\ zoomed_size' = z.zoomed_size
                   /\ widgets' = z.widgets
                   /\ wheel' = [event |-> "wheel", rate |-> zoom_rate, center |-> <<x, y>>,
                                applied |-> z.applied]
              ELSE /\ UNCHANGED <<zoomed_size, widgets>>
                   /\ wheel' = [event |-> "wheel", rate |-> zoom_rate, center |-> <<x, y>>,
                                applied |-> FALSE]
    /\ wheel_events' = wheel_events + 1
    /\ op' = "wheel"
    /\ UNCHANGED <<graph, size, item_positions, max_depth, color_args, color, renderVars>>

ZoomNext == WheelEventNone \/ WheelEvent

ZoomSpec == ZoomInit /\ [][ZoomNext]_vars

\* ------------------------------------------------------------ vocabulary
\* the IDs appearing anywhere in the graph
IDs(g) == { unnest_graph(g)[k] : k \in 1..Len(unnest_graph(g)) }

RECURSIVE HasEmptyLayer(_)
\* some dict or list of the graph, at any depth, has no entry
HasEmptyLayer(g) ==
    /\ g.kind # "leaf"
    /\ \/ Len(g.items) = 0
       \/ \E i \in 1..Len(g.items) : HasEmptyLayer(g.items[i].val)

\* the ProductionGraph invariants: no empty layer, no ID twice
Valid(g) == ~HasEmptyLayer(g) /\ Cardinality(IDs(g)) = Len(unnest_graph(g))

Positive(sz) == sz.width > 0 /\ sz.height > 0

RECURSIVE DepthPairs(_, _)
\* <<id, nesting depth>> of every ID: keys of the top layer at depth d, keys
\* of a Sublayer and elements of a TerminalList one deeper than their parent
DepthPairs(g, d) ==
    UNION { {<<g.items[i].id, d>>} \cup DepthPairs(g.items[i].val, d + 1) :
            i \in 1..Len(g.items) }

RECURSIVE LongestChain(_)
\* 1 for a layer without Sublayer, else 1 + the deepest Sublayer child
LongestChain(g) ==
    LET subs == { i \in 1..Len(g.items) : g.items[i].val.kind = "dict" }
        ds   == { LongestChain(g.items[i].val) : i \in subs }
    IN  IF subs = {} THEN 1 ELSE 1 + (CHOOSE m \in ds : \A k \in ds : k <= m)

RECURSIVE Invocations(_, _, _, _)
\* the invocations of wrapper made while laying out layer g: the layer, the
\* height of the size it is given, its depth and its y_align
Invocations(g, height, depth, y_align) ==
    LET n == Len(g.items)
    IN  IF n = 0 THEN {}
        ELSE {[layer |-> g, height |-> height, depth |-> depth, y_align |-> y_align]}
             \cup (IF g.kind = "dict"
                   THEN UNION { Invocations(g.items[i].val, Round(height, n), depth + 1,
                                            NextAlign(YStep(height, n), i - 1, y_align)) :
                                i \in 1..n }
                   ELSE {})

\* a valid graph has been laid out on a positive canvas
LaidOut == op = "layout" /\ Valid(graph) /\ Positive(size)

Pos == item_positions.pos

Calls == Invocations(graph, size.height, 0, 0)

\* ------------------------------------------------------------ claims
\* C1: on a valid graph and a positive canvas no two distinct IDs receive
\* the same (x, y)
C1_DistinctCoordinates ==
    LaidOut => /\ item_positions.err = "none"
               /\ \A a, b \in DOMAIN Pos : a # b => Pos[a] # Pos[b]

\* C2: every descendant of the node at sibling index i of a layer (height,
\* n entries, y_align) has its y inside the node's band
\* [y_align + y_step*i, y_align + y_step*(i+1)] with y_step = height/n
\* (compared after multiplying by n; i is 0-based in the claim)
C2_DescendantsInBand ==
    LaidOut =>
        \A c \in Calls :
            c.layer.kind = "dict" =>
                \A i \in 1..Len(c.layer.items) :
                    \A d \in IDs(c.layer.items[i].val) :
                        LET n == Len(c.layer.items)
                        IN  /\ d \in DOMAIN Pos
                            /\ n * c.y_align + c.height * (i - 1) <= n * Pos[d][2]
                            /\ n * Pos[d][2] <= n * c.y_align + c.height * i

\* C3: the keys of the returned position map are exactly the IDs of the graph
C3_KeysAreTheIds ==
    LaidOut => /\ item_positions.err = "none"
               /\ DOMAIN Pos = IDs(graph)

C3_Witness ==
    /\ LaidOut
    /\ item_positions.err = "none"
    /\ Cardinality(IDs(graph)) >= 5
    /\ \E i \in 1..Len(graph.items) :
          /\ graph.items[i].val.kind = "dict"
          /\ \E j \in 1..Len(graph.items[i].val.items) :
                /\ graph.items[i].val.items[j].val.kind = "list"
                /\ Len(graph.items[i].val.items[j].val.items) >= 2

\* C4 as stated: x = x_step * depth for one x_step, equal depth gives equal
\* x and a greater depth a strictly greater x
C4_XStrictlyIncreasingInDepth ==
    LaidOut =>
        \E xs \in 0..size.width :
            /\ \A p \in DepthPairs(graph, 0) : Pos[p[1]][1] = xs * p[2]
            /\ \A p, q \in DepthPairs(graph, 0) :
                  /\ p[2] = q[2] => Pos[p[1]][1] = Pos[q[1]][1]
                  /\ p[2] < q[2] => Pos[p[1]][1] < Pos[q[1]][1]

\* C4 amended: x = x_step * depth with x_step = round(width / max_depth) for
\* the whole call; equal depth gives equal x; a greater depth gives a
\* strictly greater x when x_step >= 1, and every x is 0 when x_step = 0
C4_XIsStepTimesDepth ==
    LaidOut =>
        LET xs == XStep(graph, size)
        IN  /\ xs >= 0
            /\ \A p \in DepthPairs(graph, 0) :
                  /\ Pos[p[1]][1] = xs * p[2]
                  /\ xs = 0 => Pos[p[1]][1] = 0
            /\ \A p, q \in DepthPairs(graph, 0) :
                  /\ p[2] = q[2] => Pos[p[1]][1] = Pos[q[1]][1]
                  /\ (xs >= 1 /\ p[2] < q[2]) => Pos[p[1]][1] < Pos[q[1]][1]

C4_Witness ==
    /\ LaidOut
    /\ XStep(graph, size) >= 1
    /\ \E p, q \in DepthPairs(graph, 0) :
          /\ p[2] = 1 /\ q[2] = 2
          /\ Pos[q[1]][1] > Pos[p[1]][1] /\ Pos[p[1]][1] > 0

\* C5 as stated: in every invocation the siblings' y are strictly increasing
\* in iteration order, consecutive ones y_step apart, sibling i at
\* y_step*i + y_shift + y_align
C5_SiblingsStrictlyIncreasing ==
    LaidOut =>
        \A c \in Calls :
            LET n       == Len(c.layer.items)
                y_step  == YStep(c.height, n)
                y_shift == YShift(c.height, n)
                y(i)    == Pos[c.layer.items[i].id][2]
            IN  /\ \A i \in 1..n : y(i) = y_step * (i - 1) + y_shift + c.y_align
                /\ \A i \in 1..(n - 1) : y(i + 1) - y(i) = y_step /\ y(i + 1) > y(i)

\* C5 amended: sibling i is at y_step*i + y_shift + y_align, consecutive
\* siblings are exactly y_step = round(height/n) apart, and they are strictly
\* increasing exactly when y_step >= 1; when the height of the layer rounds
\* to y_step = 0 all its siblings share one y
C5_SiblingsSpacedByYStep ==
    LaidOut =>
        \A c \in Calls :
            LET n       == Len(c.layer.items)
                y_step  == YStep(c.height, n)
                y_shift == YShift(c.height, n)
                y(i)    == Pos[c.layer.items[i].id][2]
            IN  /\ y_step >= 0
                /\ \A i \in 1..n : y(i) = y_step * (i - 1) + y_shift + c.y_align
                /\ \A i \in 1..(n - 1) :
                      /\ y(i + 1) - y(i) = y_step
                      /\ y(i + 1) > y(i) <=> y_step >= 1

C5_Witness ==
    /\ LaidOut
    /\ \E c \in Calls :
          /\ c.depth >= 1
          /\ c.y_align > 0
          /\ Len(c.layer.items) >= 2
          /\ YStep(c.height, Len(c.layer.items)) >= 1
          /\ Pos[c.layer.items[2].id][2] > Pos[c.layer.items[1].id][2]

\* C6: _get_graph_max_depth returns the length of the longest chain of
\* Sublayer nesting, the top layer counting as 1
C6_MaxDepthIsLongestChain ==
    op = "max_depth" => max_depth = LongestChain(graph)

\* C7: for min_value < max_value the gradient is pure red at min_value, pure
\* green at max_value and yellow at the midpoint
C7_RedYellowGreen ==
    (op = "color" /\ color_args.min_value < color_args.max_value) =>
        /\ color_args.value = color_args.min_value
              => color = [err |-> "none", rgb |-> <<255, 0, 0>>]
        /\ color_args.value = color_args.max_value
              => color = [err |-> "none", rgb |-> <<0, 255, 0>>]
        /\ 2 * color_args.value = color_args.min_value + color_args.max_value
              => color = [err |-> "none", rgb |-> <<255, 255, 0>>]

\* C8: laying out a graph with an empty layer at any depth raises, and no
\* position map is returned
C8_EmptyLayerRaises ==
    (op = "layout" /\ HasEmptyLayer(graph)) =>
        /\ item_positions.err = "ZeroDivisionError"
        /\ item_positions.pos = <<>>

C8_Witness ==
    /\ op = "layout"
    /\ Positive(size)
    /\ Len(graph.items) >= 2
    /\ ~HasEmptyLayer(graph.items[1].val)
    /\ graph.items[2].val.kind = "dict"
    /\ Len(graph.items[2].val.items) >= 1
    /\ HasEmptyLayer(graph.items[2].val)
    /\ item_positions.err = "ZeroDivisionError"

\* C9: a canvas whose width or height is zero or negative is rejected with
\* an error instead of a position map
C9_NonPositiveCanvasRejected ==
    (op = "layout" /\ ~Positive(size)) => item_positions.err # "none"

\* C10: the gradient raises and returns no colour when max_value < min_value
\* and when value is outside [min_value, max_value]
C10_DomainErrors ==
    (/\ op = "color"
     /\ \/ color_args.max_value < color_args.min_value
        \/ color_args.value < color_args.min_value
        \/ color_args.value > color_args.max_value) =>
        /\ color.err = "ValueError"
        /\ color.rgb = <<>>

C10_Witness ==
    /\ op = "color"
    /\ color_args.min_value < color_args.max_value
    /\ color_args.value > color_args.max_value
    /\ color.err = "ValueError"

C13_InsideCanvas ==
    LaidOut =>
        \A k \in DOMAIN Pos :
            /\ 0 <= Pos[k][1] /\ Pos[k][1] < size.width
            /\ 0 <= Pos[k][2] /\ Pos[k][2] < size.height

\* C14: for accepted inputs (min_value < max_value and
\* min_value <= value <= max_value) red, green and blue are in 0..255
C14_ComponentsInByteRange ==
    (/\ op = "color"
     /\ color_args.min_value < color_args.max_value
     /\ color_args.min_value <= color_args.value
     /\ color_args.value <= color_args.max_value) =>
        /\ color.err = "none"
        /\ \A k \in 1..3 : color.rgb[k] \in 0..255

\* C11: when an ID of the graph has no name or no saved PPHPL, render_graph
\* fails with a lookup error (KeyError) and does not complete; and
\* get_PPHPLs(update=False, resource_ids=ids) raises KeyError or returns a
\* mapping whose keys are exactly the requested ids
C11_MissingEntryIsLookupError ==
    /\ (/\ op = "render"
        /\ Valid(graph)
        /\ \E k \in IDs(graph) :
              k \notin DOMAIN product_id_to_name \/ k \notin DOMAIN saved_pphpls)
          => rendered.err = "KeyError"
    /\ op = "pphpls"
          => \/ pphpls.err = "KeyError"
             \/ pphpls.err = "none" /\ DOMAIN pphpls.map = IDs(graph)

\* C15: when every ID of the graph has a saved profit (of any sign) and a
\* name, render_graph gives the gradient bounds that contain each value and
\* creates one coloured button per positioned ID without raising
C15_RenderNeverRaises ==
    (/\ op = "render"
     /\ Valid(graph)
     /\ IDs(graph) \subseteq DOMAIN saved_pphpls
     /\ IDs(graph) \subseteq DOMAIN product_id_to_name) =>
        /\ \A k \in IDs(graph) : RenderMinValue(saved_pphpls) <= saved_pphpls[k]
        /\ rendered.err = "none"
        /\ DOMAIN rendered.buttons = IDs(graph)

\* both dimensions between MIN_WINDOW_SIZE and max_size
InBounds(sz) ==
    /\ MIN_WINDOW_SIZE.width <= sz.width /\ sz.width <= max_size.width
    /\ MIN_WINDOW_SIZE.height <= sz.height /\ sz.height <= max_size.height

\* C16: from an initial size within MIN_WINDOW_SIZE and max_size, zoomed_size
\* stays within them after any sequence of wheel events, and a wheel event
\* whose zoom would leave them changes neither zoomed_size nor the position
\* of any widget
C16_ZoomStaysInBounds ==
    /\ [](InBounds(size) => InBounds(zoomed_size))
    /\ [][(/\ InBounds(size)
           /\ wheel'.event = "wheel"
           /\ ~InBounds(Scale(zoomed_size, wheel'.rate)))
             => (zoomed_size' = zoomed_size /\ widgets' = widgets)]_vars

C16_Witness ==
    /\ InBounds(size)
    /\ wheel.event = "wheel"
    /\ ~wheel.applied
    /\ ~InBounds(Scale(zoomed_size, wheel.rate))
    /\ zoomed_size # size
    /\ widgets # _get_item_positions(graph, size).pos
====
